---------------------------- MODULE Spec2Model ----------------------------
(***************************************************************************)
(* Model of the Allegro price monitor: main.py (one run: load the watched  *)
(* items, skip recently ended ones, fetch in chunks, mark ended, compare   *)
(* with thresholds, save the ended cache), get_price.py (get_price_batch   *)
(* and _get_single) and the two loop drivers runner.py and worker_loop.py. *)
(*                                                                         *)
(* Text is modelled as a sequence of one-character strings, so that the    *)
(* substring tests of main.py ("ENDED" in s, a["id"] in s) are computed on *)
(* the text get_price_batch really builds.  Letters outside ASCII are      *)
(* written as two-character tokens ("n'" for n-acute, "e," for e-ogonek).  *)
(*                                                                         *)
(* The clock counts whole hours.  _now_iso() drops the sub-second part of  *)
(* the clock; ended_should_skip compares utcnow() - seen with a whole      *)
(* number of hours, and now - seen < W  <=>  floor(now) - seen < W when    *)
(* seen and W are whole, so whole-unit time decides the same comparisons.  *)
(***************************************************************************)
EXTENDS Integers, Sequences, FiniteSets, TLC

VARIABLES
    file,         \* content of TARGET_FILE (input, read afresh by every run)
    driver,       \* which loop driver runs main(): "runner" or "worker"
    disk,         \* the blob at ENDED_CACHE_PATH in durable storage
    cooldown,     \* persisted CooldownState.until in durable storage (0: none)
    now,          \* wall clock, in hours
    pc,           \* "start", "loop", "batch", "sleep", "dead"
    auctions,     \* main: auctions
    ended_cache,  \* main: ended_cache
    to_check,     \* main: to_check
    alerts,       \* main: alerts
    errors,       \* main: errors
    i,            \* main: index of the chunk being handled (1-based)
    results,      \* get_price_batch: results
    errs,         \* get_price_batch: errors
    pos,          \* get_price_batch: index in the chunk of the next auction
    fetched,      \* history: id and page of every _get_single call of the run
    passed,       \* history: the ids given to get_price_batch in the run
    start_cache,  \* history: the ended cache as the run loaded it
    outcome,      \* history: how the last run ended: "none", "running", "ok",
                  \* "fault_cache" (raised by ended_should_skip) or
                  \* "fault_browser" (raised by get_price_batch)
    writes        \* history: the calls of save_ended_cache in the run

vars == <<file, driver, disk, cooldown, now, pc, auctions, ended_cache, to_check,
          alerts, errors, i, results, errs, pos, fetched, passed, start_cache,
          outcome, writes>>

-----------------------------------------------------------------------------
(* Bounds of the model *)

(* The largest number of id rows of a file *)
MaxLines == 3

(* The last hour at which a run may start *)
MaxNow == 4

(* Configuration.  The three values are read from the environment          *)
(* (RECHECK_ENDED_HOURS, BATCH_SIZE, LOOP_INTERVAL); the defaults are 72,  *)
(* 25 and 900.  The values here make a window of four hours, chunks of two *)
(* auctions and a worker that sleeps four hours, so that two runs show a   *)
(* skip (runner.py, three hours later) and a re-check (worker_loop.py,     *)
(* four hours later) and a file of three ids is cut into two chunks.       *)

RECHECK_ENDED_HOURS == 4

BATCH_SIZE == 2

LOOP_INTERVAL == 14400

-----------------------------------------------------------------------------
(* Text *)

Product ==
    <<"A", "k", "w", "e", "s", "a", "n", " ", "G", "R", " ", "0", ",", "5">>

ALLEGRO_URL ==
    <<"h", "t", "t", "p", "s", ":", "/", "/", "a", "l", "l", "e", "g", "r", "o", ".", "p", "l", "/", "o", "f", "e", "r", "t", "a", "/">>

TxtAukcja ==
    <<":", " ", "A", "u", "k", "c", "j", "a", " ", "z", "a", "k", "o", "n'", "c", "z", "o", "n", "a", " ">>

TxtENDED ==
    <<"E", "N", "D", "E", "D", " ">>

TxtHTTP ==
    <<" ", "H", "T", "T", "P", " ">>

TxtTimeoutHead ==
    <<":", " ", "P", "a", "g", "e", ".", "g", "o", "t", "o", ":", " ", "T", "i", "m", "e", "o", "u", "t", " ", "3", "0", "0", "0", "0", "m", "s", " ", "e", "x", "c", "e", "e", "d", "e", "d", ".", "\n", "C", "a", "l", "l", " ", "l", "o", "g", ":", "\n", " ", " ", "-", " ", "n", "a", "v", "i", "g", "a", "t", "i", "n", "g", " ", "t", "o", " ", "''">>

TxtTimeoutTail ==
    <<"''", ",", " ", "w", "a", "i", "t", "i", "n", "g", " ", "u", "n", "t", "i", "l", " ", "''", "d", "o", "m", "c", "o", "n", "t", "e", "n", "t", "l", "o", "a", "d", "e", "d", "''">>

TxtBrakCeny ==
    <<"P", "l", "a", "y", "w", "r", "i", "g", "h", "t", ":", " ", "b", "r", "a", "k", " ", "c", "e", "n", "y", " ", "d", "l", "a", " ">>

KwENDED ==
    <<"E", "N", "D", "E", "D">>

KwZakonczon ==
    <<"z", "a", "k", "o", "n'", "c", "z", "o", "n">>

KwUsuniet ==
    <<"u", "s", "u", "n", "i", "e,", "t">>

KwHTTP404 ==
    <<"H", "T", "T", "P", " ", "4", "0", "4">>

KwHTTP410 ==
    <<"H", "T", "T", "P", " ", "4", "1", "0">>

(* Python's `needle in s` on strings *)
Contains(s, needle) ==
    \/ needle = <<>>
    \/ \E k \in 1..(Len(s) - Len(needle) + 1) :
          /\ s[k] = needle[1]
          /\ \A j \in 2..Len(needle) : s[k + j - 1] = needle[j]

(* str(status) of an HTTP status *)
StatusText(status) ==
    CASE status = 200 -> <<"2", "0", "0">>
      [] status = 403 -> <<"4", "0", "3">>
      [] status = 404 -> <<"4", "0", "4">>
      [] status = 410 -> <<"4", "1", "0">>
      [] status = 429 -> <<"4", "2", "9">>

Min(a, b) == IF a < b THEN a ELSE b

MinOf(S) == CHOOSE x \in S : \A y \in S : x <= y

MaxOf(S) == CHOOSE x \in S : \A y \in S : y <= x

-----------------------------------------------------------------------------
(* Inputs *)

Id12 == <<"1", "2">>

Id123 == <<"1", "2", "3">>

Id77 == <<"7", "7">>

Ids == {Id12, Id123, Id77}

MinPrices == {1, 2}

Prices == {1, 2}

SeqsUpTo(S, n) == UNION {[1..k -> S] : k \in 0..n}

(* A file in format B: rows 'ID;MIN_CENA'. *)
FilesB ==
    [fmt : {"B"}, header : {0},
     rows : SeqsUpTo([id : {Id12, Id123}, min_price : MinPrices], MaxLines - 1) \ {<<>>}]

(* A file in format A: 'cena minimalna: ...' and then one ID per line; a    *)
(* file of MaxLines lines repeats no ID.                                   *)
FilesA ==
    [fmt : {"A"}, header : {2},
     rows : {r \in SeqsUpTo([id : Ids, min_price : {0}], MaxLines) :
                Len(r) = MaxLines => \A x, y \in 1..Len(r) : x # y => r[x] # r[y]}]

(* A file without lines *)

EmptyFile == [fmt |-> "empty", header |-> 0, rows |-> <<>>]

(* What page.goto and the page give for one auction: how goto ends, the    *)
(* HTTP status, the price the extractors find on the page (0: none) and    *)
(* whether the page shows a listing-ended phrase.  The price on a page of  *)
(* an ended listing is a stale one.                                        *)
Page(goto, status, price, phrase) ==
    [goto |-> goto, status |-> status, price |-> price, phrase |-> phrase]

Pages ==
    {Page("ok", 200, p, FALSE) : p \in Prices}
    \cup {Page("ok", 200, 0, FALSE), Page("ok", 200, 1, TRUE),
          Page("ok", 404, 1, TRUE), Page("ok", 429, 0, FALSE),
          Page("timeout", 200, 0, FALSE)}

-----------------------------------------------------------------------------
(* main.py: load_auctions_from_files *)

(* The `auctions` list built from the lines of the file, before the        *)
(* de-duplication.                                                         *)
ParseFile(f) ==
    IF f.fmt = "B"
    THEN [k \in 1..Len(f.rows) |->
            [id |-> f.rows[k].id, min_price |-> f.rows[k].min_price, product |-> Product]]
    ELSE IF f.fmt = "A"
    THEN [k \in 1..Len(f.rows) |->
            [id |-> f.rows[k].id, min_price |-> f.header, product |-> Product]]
    ELSE <<>>

(* The key of the de-duplication *)
DedupKey(a) == <<a.product, a.id>>

(* A variant of Uniq that never looks at `seen` *)
UniqKeepAll(rest, seen, uniq) == uniq \o rest

RECURSIVE Uniq(_, _, _)
Uniq(rest, seen, uniq) ==
    IF rest = <<>> THEN uniq
    ELSE LET a == Head(rest) IN
         IF DedupKey(a) \in seen
         THEN Uniq(Tail(rest), seen, uniq)
         ELSE Uniq(Tail(rest), seen \cup {DedupKey(a)}, Append(uniq, a))

load_auctions_from_files(f) == Uniq(ParseFile(f), {}, <<>>)

(* main.py: _chunk *)
Chunk(lst, n) ==
    [k \in 1..((Len(lst) + n - 1) \div n) |->
        SubSeq(lst, (k - 1) * n + 1, Min(k * n, Len(lst)))]

(* main.py: batch_size = min(BATCH_SIZE, 5) *)
batch_size == Min(BATCH_SIZE, 5)

-----------------------------------------------------------------------------
(* main.py: the ended cache *)

(* A value of the cache: the text _now_iso() wrote at hour t ("ts"), a     *)
(* text fromisoformat rejects or a value that is no text ("bad"), or an    *)
(* ISO timestamp that carries a UTC offset ("aware").                      *)
Stamp(k, t) == [k |-> k, t |-> t]

now_iso(t) == Stamp("ts", t)

(* What json.load gives: a mapping (a dict) or any other JSON value. *)
Cache(mapping, entries) == [mapping |-> mapping, entries |-> entries]

EmptyCache == Cache(TRUE, <<>>)

Blob(kind, value) == [kind |-> kind, value |-> value]

load_ended_cache(blob) ==
    IF blob.kind = "json" THEN blob.value ELSE EmptyCache

(* The blob on disk after save_ended_cache: the dump of the cache, or the  *)
(* blob that was there when open() raises (the except branch only prints). *)
save_ended_cache(cache, blob, opened) ==
    IF opened THEN Blob("json", cache) ELSE blob

(* "skip" (True), "keep" (False) or "fault" (an exception leaves the       *)
(* function: cache.get on a value that is no dict, or the subtraction of   *)
(* an offset-aware datetime from utcnow()).                                *)
ended_should_skip(auction_id, cache, t) ==
    IF ~cache.mapping THEN "fault"
    ELSE IF auction_id \notin DOMAIN cache.entries THEN "keep"
    ELSE LET ts == cache.entries[auction_id] IN
         IF ts.k = "bad" THEN "keep"
         ELSE IF ts.k = "aware" THEN "fault"
         ELSE IF t - ts.t < RECHECK_ENDED_HOURS THEN "skip" ELSE "keep"

mark_ended(auction_id, cache, t) ==
    Cache(cache.mapping, (auction_id :> now_iso(t)) @@ cache.entries)

-----------------------------------------------------------------------------
(* get_price.py *)

Url(aid) == ALLEGRO_URL \o aid

(* _get_single: a result, or the exception that leaves it. *)
get_single(aid, page) ==
    IF page.goto = "timeout" THEN [kind |-> "PWTimeoutError", msg |-> <<>>, price |-> 0]
    ELSE IF page.status \in {404, 410}
    THEN [kind |-> "EndedOfferError",
          msg |-> TxtENDED \o aid \o TxtHTTP \o StatusText(page.status), price |-> 0]
    ELSE IF page.price = 0
    THEN [kind |-> "Exception", msg |-> TxtBrakCeny \o Url(aid), price |-> 0]
    ELSE [kind |-> "result", msg |-> <<>>, price |-> page.price]

(* get_price_batch: the text appended to errors for an exception *)
BatchError(product, aid, r) ==
    IF r.kind = "EndedOfferError"
    THEN product \o TxtAukcja \o aid \o <<" ", "(">> \o r.msg \o <<")">>
    ELSE IF r.kind = "PWTimeoutError"
    THEN product \o TxtTimeoutHead \o Url(aid) \o TxtTimeoutTail
    ELSE product \o <<":", " ">> \o r.msg

-----------------------------------------------------------------------------
(* main.py: the body of the chunk loop *)

IsEndedMessage(s) ==
    \/ Contains(s, KwENDED)
    \/ Contains(s, KwZakonczon)
    \/ Contains(s, KwUsuniet)
    \/ Contains(s, KwHTTP404)
    \/ Contains(s, KwHTTP410)

(* The marks one ended message makes: the first auction of the chunk whose *)
(* id occurs in the message, or else the whole chunk.                      *)
RECURSIVE MarkAll(_, _, _)
MarkAll(chunk, cache, t) ==
    IF chunk = <<>> THEN cache
    ELSE MarkAll(Tail(chunk), mark_ended(Head(chunk).id, cache, t), t)

MarkFromMessage(s, chunk, cache, t) ==
    LET hits == {k \in 1..Len(chunk) : Contains(s, chunk[k].id)} IN
    IF hits # {} THEN mark_ended(chunk[MinOf(hits)].id, cache, t)
    ELSE MarkAll(chunk, cache, t)

RECURSIVE ProcessErrs(_, _, _, _, _)
ProcessErrs(es, chunk, cache, errlist, t) ==
    IF es = <<>> THEN [cache |-> cache, errors |-> errlist]
    ELSE LET s == Head(es) IN
         IF IsEndedMessage(s)
         THEN ProcessErrs(Tail(es), chunk, MarkFromMessage(s, chunk, cache, t), errlist, t)
         ELSE ProcessErrs(Tail(es), chunk, cache, Append(errlist, s), t)

(* by_id = {r["id"]: r for r in results}; by_id.get(id): the last result   *)
(* with that id, or none (an empty sequence).                              *)
by_id_get(res, id) ==
    LET ks == {k \in 1..Len(res) : res[k].id = id} IN
    IF ks = {} THEN <<>> ELSE <<res[MaxOf(ks)]>>

(* A variant of BelowMin that also alerts at the threshold *)
BelowMinOrEqual(price, min_price) == price <= min_price

(* price < a["min_price"] *)
BelowMin(price, min_price) == price < min_price

Alert(a, price) ==
    [product |-> a.product, id |-> a.id, price |-> price, min |-> a.min_price]

(* A variant of CheckThresholds that puts each new alert in front *)
RECURSIVE CheckThresholdsPrepend(_, _, _)
CheckThresholdsPrepend(chunk, res, alertlist) ==
    IF chunk = <<>> THEN alertlist
    ELSE LET a == Head(chunk)
             r == by_id_get(res, a.id)
         IN  IF r = <<>> THEN CheckThresholdsPrepend(Tail(chunk), res, alertlist)
             ELSE IF BelowMin(r[1].price, a.min_price)
             THEN CheckThresholdsPrepend(Tail(chunk), res,
                                         <<Alert(a, r[1].price)>> \o alertlist)
             ELSE CheckThresholdsPrepend(Tail(chunk), res, alertlist)

RECURSIVE CheckThresholds(_, _, _)
CheckThresholds(chunk, res, alertlist) ==
    IF chunk = <<>> THEN alertlist
    ELSE LET a == Head(chunk)
             r == by_id_get(res, a.id)
         IN  IF r = <<>> THEN CheckThresholds(Tail(chunk), res, alertlist)
             ELSE IF BelowMin(r[1].price, a.min_price)
             THEN CheckThresholds(Tail(chunk), res, Append(alertlist, Alert(a, r[1].price)))
             ELSE CheckThresholds(Tail(chunk), res, alertlist)

-----------------------------------------------------------------------------
(* The loop drivers *)

(* runner.py sleeps 3 * 60 * 60 seconds between runs, worker_loop.py       *)
(* LOOP_INTERVAL seconds; in hours.                                        *)
Interval(d) ==
    IF d = "runner" THEN (3 * 60 * 60) \div 3600 ELSE LOOP_INTERVAL \div 3600

(* Where an exception that leaves main() takes the driver: runner.py       *)
(* catches it and goes on to sleep; worker_loop.run_once has try/finally   *)
(* without except, so the exception leaves loop_forever and the process.   *)
AfterFault(d) == IF d = "runner" THEN "sleep" ELSE "dead"

-----------------------------------------------------------------------------
(* Initial states *)

InitialFiles == FilesA \cup FilesB \cup {EmptyFile}

(* What a first deployment finds: no ended cache, no cooldown. *)
Init ==
    /\ file \in InitialFiles
    /\ driver \in {"runner", "worker"}
    /\ disk = Blob("absent", EmptyCache)
    /\ cooldown = 0
    /\ now = 0
    /\ pc = "start"
    /\ outcome = "none"
    /\ auctions = <<>>
    /\ ended_cache = EmptyCache
    /\ to_check = <<>>
    /\ alerts = <<>>
    /\ errors = <<>>
    /\ i = 1
    /\ results = <<>>
    /\ errs = <<>>
    /\ pos = 1
    /\ fetched = <<>>
    /\ passed = <<>>
    /\ start_cache = EmptyCache
    /\ writes = 0

(* What durable storage may hold when the monitor starts: a blob that is   *)
(* no JSON, JSON that is no mapping, a mapping whose values are no         *)
(* timestamps of _now_iso, and a cooldown that has not run out.            *)
StoredBlobs ==
    {Blob("unparsable", EmptyCache),
     Blob("json", Cache(FALSE, <<>>)),
     Blob("json", Cache(TRUE, Id12 :> Stamp("bad", 0))),
     Blob("json", Cache(TRUE, Id12 :> Stamp("aware", 0)))}

InitStore ==
    /\ file \in InitialFiles
    /\ driver \in {"runner", "worker"}
    /\ disk \in StoredBlobs
    /\ cooldown = MaxNow + 1
    /\ now = 0
    /\ pc = "start"
    /\ outcome = "none"
    /\ auctions = <<>>
    /\ ended_cache = EmptyCache
    /\ to_check = <<>>
    /\ alerts = <<>>
    /\ errors = <<>>
    /\ i = 1
    /\ results = <<>>
    /\ errs = <<>>
    /\ pos = 1
    /\ fetched = <<>>
    /\ passed = <<>>
    /\ start_cache = EmptyCache
    /\ writes = 0

-----------------------------------------------------------------------------
(* Actions *)

chunks == Chunk(to_check, batch_size)

(* main(), lines 133-170: load the file, return when it holds nothing,     *)
(* load the ended cache, build to_check, cut it into chunks.               *)
RunStart ==
    /\ pc = "start"
    /\ LET loaded == load_auctions_from_files(file)
           cache == load_ended_cache(disk)
           faults == {k \in 1..Len(loaded) :
                        ended_should_skip(loaded[k].id, cache, now) = "fault"}
           seen == IF faults = {} THEN loaded ELSE SubSeq(loaded, 1, MinOf(faults) - 1)
       IN  /\ auctions' = loaded
           /\ start_cache' = cache
           /\ IF Len(loaded) = 0
              THEN /\ pc' = "sleep"
                   /\ outcome' = "ok"
                   /\ UNCHANGED <<ended_cache, to_check>>
              ELSE /\ ended_cache' = cache
                   /\ to_check' = SelectSeq(seen,
                          LAMBDA a : ended_should_skip(a.id, cache, now) = "keep")
                   /\ IF faults = {}
                      THEN pc' = "loop" /\ outcome' = "running"
                      ELSE pc' = AfterFault(driver) /\ outcome' = "fault_cache"
    /\ UNCHANGED <<writes, file, driver, disk, cooldown, now, alerts, errors, i, results,
                   errs, pos, fetched, passed>>

(* get_price_batch(chunk), lines 346-365: the browser starts. *)
BatchOpen ==
    /\ pc = "loop"
    /\ i <= Len(chunks)
    /\ pc' = "batch"
    /\ results' = <<>>
    /\ errs' = <<>>
    /\ pos' = 1
    /\ passed' = passed \o [k \in 1..Len(chunks[i]) |-> chunks[i][k].id]
    /\ UNCHANGED <<writes, file, driver, disk, cooldown, now, auctions, ended_cache, to_check,
                   alerts, errors, i, fetched, start_cache, outcome>>

(* get_price_batch(chunk), lines 352-365: sync_playwright() or             *)
(* chromium.launch raises; nothing catches it in get_price_batch or main.  *)
BrowserFault ==
    /\ pc = "loop"
    /\ i <= Len(chunks)
    /\ pc' = AfterFault(driver)
    /\ outcome' = "fault_browser"
    /\ passed' = passed \o [k \in 1..Len(chunks[i]) |-> chunks[i][k].id]
    /\ UNCHANGED <<writes, file, driver, disk, cooldown, now, auctions, ended_cache, to_check,
                   alerts, errors, i, results, errs, pos, fetched, start_cache>>

(* get_price_batch, lines 367-381: one turn of `for a in auctions`. *)
FetchItem ==
    /\ pc = "batch"
    /\ pos <= Len(chunks[i])
    /\ \E page \in Pages :
         LET a == chunks[i][pos]
             r == get_single(a.id, page)
         IN  /\ IF r.kind = "result"
                THEN /\ results' = Append(results, [id |-> a.id, price |-> r.price])
                     /\ errs' = errs
                ELSE /\ results' = results
                     /\ errs' = Append(errs, BatchError(a.product, a.id, r))
             /\ fetched' = Append(fetched, [id |-> a.id, page |-> page])
    /\ pos' = pos + 1
    /\ UNCHANGED <<writes, file, driver, disk, cooldown, now, pc, auctions, ended_cache,
                   to_check, alerts, errors, i, passed, start_cache, outcome>>

(* get_price_batch, lines 383-386: context.close() or browser.close()      *)
(* raises (the browser is gone); the results of the chunk are lost.        *)
CloseFault ==
    /\ pc = "batch"
    /\ pos > Len(chunks[i])
    /\ pc' = AfterFault(driver)
    /\ outcome' = "fault_browser"
    /\ UNCHANGED <<writes, file, driver, disk, cooldown, now, auctions, ended_cache, to_check,
                   alerts, errors, i, results, errs, pos, fetched, passed, start_cache>>

(* get_price_batch returns; main(), lines 177-206: ended marks and errors  *)
(* from the messages, then the thresholds.                                 *)
ChunkDone ==
    /\ pc = "batch"
    /\ pos > Len(chunks[i])
    /\ LET done == ProcessErrs(errs, chunks[i], ended_cache, errors, now) IN
         /\ ended_cache' = done.cache
         /\ errors' = done.errors
    /\ alerts' = CheckThresholds(chunks[i], results, alerts)
    /\ i' = i + 1
    /\ pc' = "loop"
    /\ UNCHANGED <<writes, file, driver, disk, cooldown, now, auctions, to_check, results,
                   errs, pos, fetched, passed, start_cache, outcome>>

(* main(), lines 208-222: save the ended cache, report. *)
RunFinish ==
    /\ pc = "loop"
    /\ i > Len(chunks)
    /\ \E opened \in BOOLEAN : disk' = save_ended_cache(ended_cache, disk, opened)
    /\ writes' = writes + 1
    /\ pc' = "sleep"
    /\ outcome' = "ok"
    /\ UNCHANGED <<file, driver, cooldown, now, auctions, ended_cache, to_check,
                   alerts, errors, i, results, errs, pos, fetched, passed, start_cache>>

(* The driver sleeps and calls main() again; main's locals are gone. *)
Sleep ==
    /\ pc = "sleep"
    /\ now + Interval(driver) <= MaxNow
    /\ now' = now + Interval(driver)
    /\ pc' = "start"
    /\ auctions' = <<>>
    /\ ended_cache' = EmptyCache
    /\ to_check' = <<>>
    /\ alerts' = <<>>
    /\ errors' = <<>>
    /\ i' = 1
    /\ results' = <<>>
    /\ errs' = <<>>
    /\ pos' = 1
    /\ fetched' = <<>>
    /\ passed' = <<>>
    /\ start_cache' = EmptyCache
    /\ writes' = 0
    /\ UNCHANGED <<file, driver, disk, cooldown, outcome>>

Next ==
    \/ RunStart
    \/ BatchOpen
    \/ BrowserFault
    \/ FetchItem
    \/ CloseFault
    \/ ChunkDone
    \/ RunFinish
    \/ Sleep

Spec == Init /\ [][Next]_vars

SpecStore == InitStore /\ [][Next]_vars

-----------------------------------------------------------------------------
(* Vocabulary of the properties *)

RunEnded == pc \in {"sleep", "dead"}

Range(sq) == {sq[k] : k \in 1..Len(sq)}

FetchedIds == {fetched[k].id : k \in 1..Len(fetched)}

(* The ids of the chunks whose results main has gone through *)
ProcessedIds ==
    {to_check[n].id : n \in 1..Min((i - 1) * batch_size, Len(to_check))}

(* The outcome of a fetch as the specification classifies it *)
IsEndedPage(pg) == pg.goto = "ok" /\ pg.status \in {404, 410}

IsBlockedPage(pg) == pg.goto = "ok" /\ pg.status \in {403, 429}

IsFailurePage(pg) ==
    \/ pg.goto = "timeout"
    \/ pg.goto = "ok" /\ pg.status = 200 /\ pg.price = 0 /\ ~pg.phrase

(* What get_price_batch got for a fetch, and the text it logs for it *)
ReturnOf(f) == get_single(f.id, f.page)

MessageOf(f) == BatchError(Product, f.id, ReturnOf(f))

MarkedNow(id) ==
    /\ id \in DOMAIN ended_cache.entries
    /\ ended_cache.entries[id] = Stamp("ts", now)

YoungAtStart(id) ==
    /\ start_cache.mapping
    /\ id \in DOMAIN start_cache.entries
    /\ start_cache.entries[id].k = "ts"
    /\ now - start_cache.entries[id].t < RECHECK_ENDED_HOURS

ElapsedAtStart(id) ==
    /\ start_cache.mapping
    /\ id \in DOMAIN start_cache.entries
    /\ start_cache.entries[id].k = "ts"
    /\ now - start_cache.entries[id].t >= RECHECK_ENDED_HOURS

-----------------------------------------------------------------------------
(* C1: for every watched item whose chunk the run has gone through and for *)
(* which the fetcher returned a price p, the alert list holds the record   *)
(* {product, id, price p, min threshold} of the item (once) if p is        *)
(* strictly below the item's threshold and no record of the item           *)
(* otherwise; an item without a fetched price has no alert.                *)
C1_AlertIffBelowThreshold ==
    LET done == ProcessedIds
        priced == {k \in 1..Len(fetched) : ReturnOf(fetched[k]).kind = "result"}
    IN  \A n \in 1..Len(auctions) :
            LET a == auctions[n]
                got == {k \in priced : fetched[k].id = a.id}
                mine == {x \in 1..Len(alerts) : alerts[x].id = a.id}
            IN  IF a.id \in done /\ got # {}
                THEN LET p == ReturnOf(fetched[CHOOSE k \in got : TRUE]).price IN
                     IF p < a.min_price
                     THEN /\ Cardinality(mine) = 1
                          /\ \A x \in mine :
                               alerts[x] = [product |-> a.product, id |-> a.id,
                                            price |-> p, min |-> a.min_price]
                     ELSE mine = {}
                ELSE mine = {}

(* A run that ended with an alert for one item and with another item       *)
(* priced exactly at its threshold.                                        *)
C1_Witness ==
    /\ RunEnded
    /\ alerts # <<>>
    /\ \E n \in 1..Len(auctions), k \in 1..Len(fetched) :
         /\ fetched[k].id = auctions[n].id
         /\ auctions[n].id \in ProcessedIds
         /\ ReturnOf(fetched[k]).kind = "result"
         /\ ReturnOf(fetched[k]).price = auctions[n].min_price

(* C2: when the fetch of X ended as Ended (HTTP 404/410), at the end of    *)
(* the run the ended cache holds an entry for X stamped with the current   *)
(* time, the error list has no entry for X and there is no alert for X,    *)
(* whatever else is in the chunk.                                          *)
C2_EndedIsMarked ==
    RunEnded =>
        \A k \in 1..Len(fetched) :
            IsEndedPage(fetched[k].page) =>
                /\ MarkedNow(fetched[k].id)
                /\ \A e \in Range(errors) : e # MessageOf(fetched[k])
                /\ \A al \in Range(alerts) : al.id # fetched[k].id

(* C3: an identifier whose ended timestamp is younger than the re-check    *)
(* window when the run starts is not passed to the fetcher in that run,    *)
(* and an identifier of the file whose window has elapsed when the run     *)
(* starts has been passed to the fetcher when the run ends.                *)
C3_NoFetchWithinWindow ==
    \A k \in 1..Len(passed) : ~YoungAtStart(passed[k])

C3_SkipUntilWindowElapsed ==
    /\ C3_NoFetchWithinWindow
    /\ RunEnded =>
         \A n \in 1..Len(auctions) :
             ElapsedAtStart(auctions[n].id) => auctions[n].id \in Range(passed)

(* C4: while a persisted cooldown has not run out, a run passes nothing to *)
(* get_price_batch and fetches nothing.  (main.py reports no cooldown      *)
(* status at all; the formula states the part about fetching.)             *)
C4_CooldownGatesRun ==
    cooldown > now => passed = <<>> /\ fetched = <<>>

(* C5: a fetch that ended as Blocked (HTTP 403/429) is the last fetch of   *)
(* its run, and the run ends with a persisted cooldown that has not run    *)
(* out and with no alerts.                                                 *)
C5_BlockedAbortsRun ==
    /\ \A k \in 1..Len(fetched) :
         IsBlockedPage(fetched[k].page) => k = Len(fetched)
    /\ (RunEnded /\ \E k \in 1..Len(fetched) : IsBlockedPage(fetched[k].page))
         => cooldown > now /\ alerts = <<>>

(* C6: when a run ends, every fetch that failed with a transport error or  *)
(* found no price has exactly one entry in the error list, every           *)
(* identifier after it in to_check has been fetched, and every fetched     *)
(* item has exactly one of a price result, an ended mark and an error      *)
(* entry.                                                                  *)
C6_FailureIsPerItem ==
    RunEnded =>
        /\ \A k \in 1..Len(fetched) :
             IsFailurePage(fetched[k].page) =>
                 /\ Cardinality({e \in 1..Len(errors) :
                                   errors[e] = MessageOf(fetched[k])}) = 1
                 /\ \A n \in (k + 1)..Len(to_check) : to_check[n].id \in FetchedIds
        /\ \A k \in 1..Len(fetched) :
             LET priced == ReturnOf(fetched[k]).kind = "result"
                 marked == MarkedNow(fetched[k].id)
                 logged == MessageOf(fetched[k]) \in Range(errors)
             IN  \/ priced /\ ~marked /\ ~logged
                 \/ ~priced /\ marked /\ ~logged
                 \/ ~priced /\ ~marked /\ logged

(* C7: no fault raised while fetching ends a run before all its chunks     *)
(* are processed, and no driver stops scheduling runs.                     *)
C7_NoFaultStopsTheMonitor ==
    /\ pc # "dead"
    /\ outcome # "fault_browser"
    /\ RunEnded => i > Len(chunks)

(* C8: the alert list is in the order of the loaded items: of two alerts   *)
(* the earlier one belongs to the item that comes earlier in `auctions`,   *)
(* across chunk boundaries; and the price of each alert is the price       *)
(* the fetcher returned for the same identifier.                           *)
C8_AlertsInInputOrder ==
    LET IndexIn(id) == CHOOSE n \in 1..Len(auctions) : auctions[n].id = id IN
    /\ \A x \in 1..Len(alerts) :
         \E n \in 1..Len(auctions) : auctions[n].id = alerts[x].id
    /\ \A x, y \in 1..Len(alerts) :
         x < y <=> IndexIn(alerts[x].id) < IndexIn(alerts[y].id)
    /\ \A x \in 1..Len(alerts) :
         \E k \in 1..Len(fetched) :
             /\ fetched[k].id = alerts[x].id
             /\ ReturnOf(fetched[k]).kind = "result"
             /\ ReturnOf(fetched[k]).price = alerts[x].price

(* A run that ended with alerts from both of its chunks *)
C8_Witness ==
    /\ RunEnded
    /\ Len(chunks) = 2
    /\ \E x, y \in 1..Len(alerts) :
         /\ alerts[x].id = chunks[1][1].id
         /\ alerts[y].id = chunks[2][1].id

(* C9: the list load_auctions_from_files returns has no two entries with   *)
(* the same (product, id), has an entry for every (product, id) of the     *)
(* file, each entry is the first row of the file with its pair, the        *)
(* entries are in the order of these first rows, and no identifier is      *)
(* fetched twice in a run.                                                 *)
C9_LoadedWithoutDuplicates ==
    pc # "start" =>
        LET parsed == ParseFile(file)
            KeyOf(a) == <<a.product, a.id>>
            First(key) == MinOf({k \in 1..Len(parsed) : KeyOf(parsed[k]) = key})
        IN  /\ \A x, y \in 1..Len(auctions) :
                 x # y => KeyOf(auctions[x]) # KeyOf(auctions[y])
            /\ \A k \in 1..Len(parsed) :
                 \E x \in 1..Len(auctions) : KeyOf(auctions[x]) = KeyOf(parsed[k])
            /\ \A x \in 1..Len(auctions) :
                 /\ \E k \in 1..Len(parsed) : KeyOf(parsed[k]) = KeyOf(auctions[x])
                 /\ auctions[x] = parsed[First(KeyOf(auctions[x]))]
            /\ \A x, y \in 1..Len(auctions) :
                 x < y => First(KeyOf(auctions[x])) < First(KeyOf(auctions[y]))
            /\ \A x, y \in 1..Len(fetched) :
                 x # y => fetched[x].id # fetched[y].id

(* A run over a file in which a pair occurs twice, with different          *)
(* thresholds, and whose items were fetched.                               *)
C9_Witness ==
    /\ RunEnded
    /\ Len(fetched) = Len(auctions)
    /\ Len(auctions) = 1
    /\ \E x, y \in 1..Len(file.rows) :
         /\ x < y
         /\ file.rows[x].id = file.rows[y].id
         /\ file.rows[x].min_price # file.rows[y].min_price

(* C10: whatever the blob at ENDED_CACHE_PATH holds, loading it and        *)
(* consulting it raises no fault, and the run that finds a blob that is no *)
(* mapping of identifiers to timestamps skips no identifier.               *)
C10_CorruptCacheIsEmpty ==
    /\ outcome # "fault_cache"
    /\ (now = 0 /\ pc # "start") => to_check = auctions

-----------------------------------------------------------------------------
(* The ended-marker of a fetched page: the HTTP status 404/410 or a        *)
(* listing ended/removed/not-found phrase.                                 *)
HasEndedMarker(pg) == pg.goto = "ok" /\ (pg.status \in {404, 410} \/ pg.phrase)

(* C11: a fetched page that carries an ended-marker (HTTP 404/410 or an    *)
(* ended phrase) and also a stale price is never priced: _get_single       *)
(* returns no price result for it and the run has no alert for its item.   *)
C11_EndedBeforePrice ==
    \A k \in 1..Len(fetched) :
        (HasEndedMarker(fetched[k].page) /\ fetched[k].page.price # 0) =>
            /\ ReturnOf(fetched[k]).kind # "result"
            /\ \A al \in Range(alerts) : al.id # fetched[k].id

-----------------------------------------------------------------------------
(* The identifiers the run has marked ended in memory: entries of          *)
(* ended_cache that the cache loaded at the start of the run did not hold. *)
MarkedInRun ==
    {id \in DOMAIN ended_cache.entries :
        \/ id \notin DOMAIN start_cache.entries
        \/ ended_cache.entries[id] # start_cache.entries[id]}

(* The entry of id in memory is the entry of id in durable storage *)
Persisted(id) ==
    /\ disk.kind = "json"
    /\ disk.value.mapping
    /\ id \in DOMAIN disk.value.entries
    /\ disk.value.entries[id] = ended_cache.entries[id]

(* C12: a run writes the ended cache at most once, and only as it ends     *)
(* (never between items or chunks), and when a run has ended, normally or  *)
(* by a fault, every identifier it marked ended in memory has that entry   *)
(* in durable storage.                                                     *)
C12_MarksPersistedAtRunEnd ==
    /\ writes <= 1
    /\ writes = 1 => RunEnded
    /\ RunEnded => \A id \in MarkedInRun : Persisted(id)

(* C13: every identifier the run has marked ended in memory is one whose   *)
(* own fetch in this run ended as Ended (EndedOfferError); no identifier   *)
(* that was priced, failed otherwise or was not fetched gets a mark.       *)
C13_MarkOnlyOwnEnded ==
    \A id \in MarkedInRun :
        \E k \in 1..Len(fetched) :
            /\ fetched[k].id = id
            /\ ReturnOf(fetched[k]).kind = "EndedOfferError"

=============================================================================
